---- MODULE Spec2Model ----
(***************************************************************************)
(* Model of function_overloading.py: OverloadedFunction (a Dispatch Set:   *)
(* an ordered list of candidate callables, first structural match wins)    *)
(* and Overloader (the controller: qualified name -> OverloadedFunction,   *)
(* plus the `overload` decorator and the two wrappers it returns).         *)
(*                                                                         *)
(* A callable is an index into the catalogue `Functions`; what the code    *)
(* reads of a callable is its __qualname__, inspect.getfullargspec,        *)
(* inspect.isfunction and inspect.ismethod.  Positional arguments are      *)
(* modelled by their count, keyword arguments by the set of their names:   *)
(* the dispatch never looks at a value.                                    *)
(***************************************************************************)
EXTENDS Integers, Sequences, FiniteSets, TLC

\* Bounds of the exploration.
MaxRegistered == 2      \* registrations made in one run, over all names

\* Keyword names a call may supply.  "self" is the keyword that
\* method_wrapper itself passes (line 115).
KwNames == {"b", "self"}

\* The callables handed to register/overload.  args, varargs and varkw are
\* what getfullargspec reports (for a bound method and for a class it
\* includes the first parameter, self); kind says which of
\* isfunction/ismethod holds ("other": neither, e.g. a class or a builtin).
Functions ==
  << [qualname |-> "f",   kind |-> "function", args |-> <<"a">>,
      varargs |-> FALSE, varkw |-> FALSE],                \* def f(a)
     [qualname |-> "f",   kind |-> "function", args |-> <<"a", "b">>,
      varargs |-> FALSE, varkw |-> FALSE],                \* def f(a, b=1)
     [qualname |-> "f",   kind |-> "function", args |-> <<>>,
      varargs |-> TRUE,  varkw |-> TRUE],                 \* def f(*args, **kwargs)
     [qualname |-> "f",   kind |-> "function", args |-> <<"a">>,
      varargs |-> TRUE,  varkw |-> FALSE],                \* def f(a, *args)
     [qualname |-> "f",   kind |-> "function", args |-> <<"a">>,
      varargs |-> FALSE, varkw |-> TRUE],                 \* def f(a, **kwargs)
     [qualname |-> "A.m", kind |-> "function", args |-> <<"self", "a">>,
      varargs |-> FALSE, varkw |-> FALSE],                \* class A: def m(self, a)
     [qualname |-> "A.m", kind |-> "method",   args |-> <<"self", "a">>,
      varargs |-> FALSE, varkw |-> FALSE],                \* A().m, a bound method
     [qualname |-> "K",   kind |-> "other",    args |-> <<"self", "a">>,
      varargs |-> FALSE, varkw |-> FALSE] >>              \* class K: def __init__(self, a)

FnIds == 1..Len(Functions)

\* Calls supply 0 .. MaxArgs positional arguments: up to one more than the
\* longest parameter list, so every candidate sees fewer, as many and more
\* positional arguments than it has named parameters.
MaxArgs == 1 + CHOOSE n \in 0..8 : /\ \A i \in FnIds : Len(Functions[i].args) <= n
                                   /\ \E i \in FnIds : Len(Functions[i].args) = n
QualNames == {Functions[i].qualname : i \in FnIds}

qualname(function) == Functions[function].qualname
getfullargspec(function) ==
  [args |-> Functions[function].args,
   varargs |-> Functions[function].varargs,
   varkw |-> Functions[function].varkw]
isfunction(function) == Functions[function].kind = "function"
ismethod(function) == Functions[function].kind = "method"

VARIABLES
  registry,   \* Overloader.registry: qualified name -> OverloadedFunction,
              \* an object [id, registry]: registry is its candidate list,
              \* id tells the objects constructed for one name apart
              \* (1 for the first, 2 for one that replaced it, ...)
  wrappers,   \* the wrappers `overload` has returned: [kind, qualname]
  last        \* the last operation run, with its arguments and its outcome

vars == <<registry, wrappers, last>>

Range(s) == {s[i] : i \in 1..Len(s)}

\* Python's s[n:], also when n > len(s).
SliceFrom(s, n) == [i \in 1..(IF Len(s) > n THEN Len(s) - n ELSE 0) |-> s[i + n]]

\* Variants of the acceptance test with one slip each: the positional
\* comparison strict, the keyword names compared with all the named
\* parameters instead of the remaining ones, the varargs escape left out.
Accepts_strict(function, nargs, kwargs) ==
  LET fullargspec == getfullargspec(function)
      remaining_args == SliceFrom(fullargspec.args, nargs)
  IN  /\ (nargs < Len(fullargspec.args) \/ fullargspec.varargs)
      /\ (kwargs \subseteq Range(remaining_args) \/ fullargspec.varkw)

Accepts_allnames(function, nargs, kwargs) ==
  LET fullargspec == getfullargspec(function)
  IN  /\ (nargs <= Len(fullargspec.args) \/ fullargspec.varargs)
      /\ (kwargs \subseteq Range(fullargspec.args) \/ fullargspec.varkw)

Accepts_novarargs(function, nargs, kwargs) ==
  LET fullargspec == getfullargspec(function)
      remaining_args == SliceFrom(fullargspec.args, nargs)
  IN  /\ nargs <= Len(fullargspec.args)
      /\ (kwargs \subseteq Range(remaining_args) \/ fullargspec.varkw)

\* The acceptance test of lookup's loop body for one candidate.
Accepts(function, nargs, kwargs) ==
  LET fullargspec == getfullargspec(function)
      remaining_args == SliceFrom(fullargspec.args, nargs)
  IN  /\ (nargs <= Len(fullargspec.args) \/ fullargspec.varargs)
      /\ (kwargs \subseteq Range(remaining_args) \/ fullargspec.varkw)

RECURSIVE lookupFrom(_, _, _, _)
lookupFrom(candidates, i, nargs, kwargs) ==
  IF i > Len(candidates) THEN 0
  ELSE IF Accepts(candidates[i], nargs, kwargs) THEN i
  ELSE lookupFrom(candidates, i + 1, nargs, kwargs)

\* OverloadedFunction.lookup: the index of the first candidate that passes,
\* 0 for None (the loop ending without a return).
lookup(candidates, nargs, kwargs) == lookupFrom(candidates, 1, nargs, kwargs)

\* OverloadedFunction.__call__(self, *args, **kwargs).  Its own first
\* parameter is named self, so a call that supplies a keyword self fails to
\* bind (TypeError: got multiple values for argument 'self') before the body
\* runs.  Otherwise: lookup, raise OverloadedFunctionError when it found
\* nothing, else run the candidate with the same arguments and hand back
\* whatever it gives.
call(candidates, nargs, kwargs) ==
  IF "self" \in kwargs
  THEN [outcome |-> "TypeError", selected |-> 0, executed |-> <<>>]
  ELSE LET function == lookup(candidates, nargs, kwargs)
       IN  IF function = 0
           THEN [outcome |-> "OverloadedFunctionError", selected |-> 0,
                 executed |-> <<>>]
           ELSE [outcome |-> "return", selected |-> function,
                 executed |-> << [fn |-> candidates[function], nargs |-> nargs,
                                  kwargs |-> kwargs] >>]

\* OverloadedFunction.__init__: a new object with an empty candidate list.
OverloadedFunction_init(id) == [id |-> id, registry |-> << >>]

\* Variant: the callable appended twice.
OverloadedFunction_register_twice(of, function) ==
  [of EXCEPT !.registry = Append(Append(@, function), function)]

\* OverloadedFunction.register: append, nothing else.
OverloadedFunction_register(of, function) ==
  [of EXCEPT !.registry = Append(@, function)]

\* Variant: the test for an existing entry left out, so that every
\* registration constructs a new OverloadedFunction for the name.
Overloader_register_recreate(reg, function) ==
  LET key == qualname(function)
      id == IF key \in DOMAIN reg THEN reg[key].id + 1 ELSE 1
      reg1 == [n \in DOMAIN reg \cup {key} |->
                 IF n = key THEN OverloadedFunction_init(id) ELSE reg[n]]
  IN  [reg1 EXCEPT ![key] = OverloadedFunction_register(@, function)]

\* Overloader.register: create the OverloadedFunction of the callable's
\* __qualname__ when the name has none yet, then register the callable in it.
Overloader_register(reg, function) ==
  LET key == qualname(function)
      reg1 == IF key \notin DOMAIN reg
              THEN [n \in DOMAIN reg \cup {key} |->
                      IF n = key THEN OverloadedFunction_init(1) ELSE reg[n]]
              ELSE reg
  IN  [reg1 EXCEPT ![key] = OverloadedFunction_register(@, function)]

\* What Overloader.overload returns after registering: function_wrapper for
\* a plain function, method_wrapper for a bound method, and None (the
\* function body ending without a return) for anything else.  A wrapper
\* closes over the callable and reads nothing of it but its __qualname__.
overload_returns(function) ==
  IF isfunction(function)
  THEN [kind |-> "function_wrapper", qualname |-> qualname(function)]
  ELSE IF ismethod(function)
  THEN [kind |-> "method_wrapper", qualname |-> qualname(function)]
  ELSE [kind |-> "None", qualname |-> "none"]

\* function_wrapper(*args, **kwargs): fetch the OverloadedFunction of the
\* closed-over callable's name from the registry as it is now, and call it.
function_wrapper(reg, name, nargs, kwargs) ==
  call(reg[name].registry, nargs, kwargs)

\* method_wrapper(_self, *args, **kwargs): the first positional argument is
\* the receiver (a call without one fails to bind: TypeError); the
\* OverloadedFunction is fetched as above and called with the receiver
\* passed as the keyword self next to the remaining arguments.
method_wrapper(reg, name, nargs, kwargs) ==
  IF nargs = 0
  THEN [outcome |-> "TypeError", selected |-> 0, executed |-> <<>>]
  ELSE call(reg[name].registry, nargs - 1, kwargs \cup {"self"})

wrapper_call(reg, wrapper, nargs, kwargs) ==
  IF wrapper.kind = "function_wrapper"
  THEN function_wrapper(reg, wrapper.qualname, nargs, kwargs)
  ELSE method_wrapper(reg, wrapper.qualname, nargs, kwargs)

\* The shape of the state: the registry is a dict from qualified names to
\* OverloadedFunction objects, each holding a list of callables.
TypeOK ==
  /\ DOMAIN registry \subseteq QualNames
  /\ \A n \in DOMAIN registry :
       /\ registry[n].id \in Nat
       /\ registry[n].registry \in Seq(FnIds)
  /\ \A w \in wrappers :
       /\ w.kind \in {"function_wrapper", "method_wrapper"}
       /\ w.qualname \in DOMAIN registry
  /\ last.op \in {"init", "register", "overload", "lookup", "call"}
  /\ last.outcome \in {"none", "found", "None", "return",
                       "OverloadedFunctionError", "TypeError"}

RECURSIVE SumLen(_, _)
SumLen(reg, names) ==
  IF names = {} THEN 0
  ELSE LET n == CHOOSE x \in names : TRUE
       IN  Len(reg[n].registry) + SumLen(reg, names \ {n})

Registered == SumLen(registry, DOMAIN registry)

Init ==
  /\ registry = [n \in {} |-> OverloadedFunction_init(0)]
  /\ wrappers = {}
  /\ last = [op |-> "init", via |-> "none", name |-> "none", fn |-> 0,
             nargs |-> 0, kwargs |-> {}, ret |-> "none",
             outcome |-> "none", selected |-> 0, executed |-> <<>>]

\* overloader.register(function), called directly.
Register(function) ==
  /\ Registered < MaxRegistered
  /\ registry' = Overloader_register(registry, function)
  /\ UNCHANGED wrappers
  /\ last' = [op |-> "register", via |-> "none", name |-> qualname(function),
              fn |-> function, nargs |-> 0, kwargs |-> {}, ret |-> "none",
              outcome |-> "none", selected |-> 0, executed |-> <<>>]

\* @overloader.overload applied to function: register, then return a wrapper.
Overload(function) ==
  /\ Registered < MaxRegistered
  /\ registry' = Overloader_register(registry, function)
  /\ wrappers' = IF overload_returns(function).kind = "None" THEN wrappers
                 ELSE wrappers \cup {overload_returns(function)}
  /\ last' = [op |-> "overload", via |-> "none", name |-> qualname(function),
              fn |-> function, nargs |-> 0, kwargs |-> {},
              ret |-> overload_returns(function).kind,
              outcome |-> "none", selected |-> 0, executed |-> <<>>]

\* overloader.registry[name].lookup(args, kwargs).
Lookup(name, nargs, kwargs) ==
  /\ name \in DOMAIN registry
  /\ LET function == lookup(registry[name].registry, nargs, kwargs)
     IN  last' = [op |-> "lookup", via |-> "direct", name |-> name, fn |-> 0,
                  nargs |-> nargs, kwargs |-> kwargs, ret |-> "none",
                  outcome |-> IF function = 0 THEN "None" ELSE "found",
                  selected |-> function, executed |-> <<>>]
  /\ UNCHANGED <<registry, wrappers>>

\* overloader.registry[name](*args, **kwargs): the Dispatch Set called directly.
Invoke(name, nargs, kwargs) ==
  /\ name \in DOMAIN registry
  /\ LET r == call(registry[name].registry, nargs, kwargs)
     IN  last' = [op |-> "call", via |-> "direct", name |-> name, fn |-> 0,
                  nargs |-> nargs, kwargs |-> kwargs, ret |-> "none",
                  outcome |-> r.outcome, selected |-> r.selected,
                  executed |-> r.executed]
  /\ UNCHANGED <<registry, wrappers>>

\* A call of a wrapper that overload returned earlier.
CallWrapper(wrapper, nargs, kwargs) ==
  /\ wrapper \in wrappers
  /\ LET r == wrapper_call(registry, wrapper, nargs, kwargs)
     IN  last' = [op |-> "call", via |-> wrapper.kind,
                  name |-> wrapper.qualname, fn |-> 0,
                  nargs |-> nargs, kwargs |-> kwargs, ret |-> "none",
                  outcome |-> r.outcome, selected |-> r.selected,
                  executed |-> r.executed]
  /\ UNCHANGED <<registry, wrappers>>

Next ==
  \/ \E function \in FnIds : Register(function)
  \/ \E function \in FnIds : Overload(function)
  \/ \E name \in QualNames, nargs \in 0..MaxArgs, kwargs \in SUBSET KwNames :
       Lookup(name, nargs, kwargs)
  \/ \E name \in QualNames, nargs \in 0..MaxArgs, kwargs \in SUBSET KwNames :
       Invoke(name, nargs, kwargs)
  \/ \E wrapper \in wrappers, nargs \in 0..MaxArgs, kwargs \in SUBSET KwNames :
       CallWrapper(wrapper, nargs, kwargs)

Spec == Init /\ [][Next]_vars

(***************************************************************************)
(* The acceptance tests in the words of the specification, used to state   *)
(* the properties below.                                                   *)
(***************************************************************************)
NamedParams(function) == Functions[function].args
HasVarargs(function) == Functions[function].varargs
HasVarkw(function) == Functions[function].varkw

\* Positional compatibility: no more positional arguments than named
\* parameters, or a catch-all positional parameter.
PositionalOk(function, k) ==
  k <= Len(NamedParams(function)) \/ HasVarargs(function)

\* The named parameters at index >= the number of positional arguments.
RemainingParams(function, k) ==
  {NamedParams(function)[j] : j \in (k + 1)..Len(NamedParams(function))}

\* Keyword compatibility: every keyword is a remaining parameter, or a
\* catch-all keyword parameter.
KeywordOk(function, k, kw) ==
  kw \subseteq RemainingParams(function, k) \/ HasVarkw(function)

Passes(function, k, kw) == PositionalOk(function, k) /\ KeywordOk(function, k, kw)

Candidates(name) == registry[name].registry

\* Registration indices of the candidates of name that pass both tests.
Passing(name, k, kw) ==
  {i \in 1..Len(Candidates(name)) : Passes(Candidates(name)[i], k, kw)}

Lowest(S) == CHOOSE i \in S : \A j \in S : i <= j

IsPrefix(s, t) == Len(s) <= Len(t) /\ \A i \in 1..Len(s) : s[i] = t[i]

DirectCall == last.op = "call" /\ last.via = "direct"
PlainCall == last.op = "call" /\ last.via \in {"direct", "function_wrapper"}

\* C1: whenever at least one candidate passes both acceptance tests, invoke
\* executes exactly one candidate, the one of lowest registration index
\* among those that pass, with exactly the given arguments, and returns its
\* result.
C1_FirstMatchInvoked ==
  (DirectCall /\ Passing(last.name, last.nargs, last.kwargs) # {}) =>
    LET i == Lowest(Passing(last.name, last.nargs, last.kwargs))
    IN  /\ last.outcome = "return"
        /\ last.selected = i
        /\ last.executed = << [fn |-> Candidates(last.name)[i],
                               nargs |-> last.nargs, kwargs |-> last.kwargs] >>

\* C2: whenever no candidate passes both acceptance tests, a call (direct or
\* through a wrapper) ends in OverloadedFunctionError and executes no
\* candidate.  For a method wrapper the receiver is counted with the
\* arguments, as a positional argument or as the keyword self.
C2_NoMatchRaises ==
  LET none == IF last.via = "method_wrapper"
              THEN /\ Passing(last.name, last.nargs, last.kwargs) = {}
                   /\ last.nargs >= 1
                   /\ Passing(last.name, last.nargs - 1,
                              last.kwargs \cup {"self"}) = {}
              ELSE Passing(last.name, last.nargs, last.kwargs) = {}
  IN  (last.op = "call" /\ none) =>
        /\ last.outcome = "OverloadedFunctionError"
        /\ last.executed = << >>

\* C3: all the wrappers overload has returned for one qualified name select
\* the same candidate of the current candidate list for the same call shape.
C3_WrappersAgree ==
  \A w1 \in wrappers, w2 \in wrappers :
    w1.qualname = w2.qualname =>
      \A k \in 0..MaxArgs, kw \in SUBSET KwNames :
        wrapper_call(registry, w1, k, kw).selected =
          wrapper_call(registry, w2, k, kw).selected

\* C4: with exactly two candidates without varargs/varkw registered under a
\* name, of n < m named parameters in that order, a keyword-free call with k
\* positional arguments selects the first when k = n, the second when
\* k = m, and ends in OverloadedFunctionError when k > m.
ArityPair(name) ==
  /\ name \in DOMAIN registry
  /\ Len(Candidates(name)) = 2
  /\ \A i \in 1..2 : /\ ~HasVarargs(Candidates(name)[i])
                     /\ ~HasVarkw(Candidates(name)[i])
  /\ Len(NamedParams(Candidates(name)[1])) < Len(NamedParams(Candidates(name)[2]))

C4_RoutedByArity ==
  (PlainCall /\ last.kwargs = {} /\ ArityPair(last.name)) =>
    LET n == Len(NamedParams(Candidates(last.name)[1]))
        m == Len(NamedParams(Candidates(last.name)[2]))
        ran(i) == /\ last.outcome = "return"
                  /\ last.selected = i
                  /\ Len(last.executed) = 1
                  /\ last.executed[1].fn = Candidates(last.name)[i]
    IN  /\ last.nargs = n => ran(1)
        /\ last.nargs = m => ran(2)
        /\ last.nargs > m => /\ last.outcome = "OverloadedFunctionError"
                            /\ last.executed = << >>

C4_Witness ==
  /\ PlainCall /\ last.kwargs = {} /\ ArityPair(last.name)
  /\ last.nargs = Len(NamedParams(Candidates(last.name)[2]))
  /\ last.selected = 2

\* C5: match never returns a candidate without varkw for which some supplied
\* keyword is not among its remaining named parameters, and goes on to the
\* later candidates: it returns the first candidate that passes.  With f(a)
\* registered before f(a, b=1), the call f(x, b=y) resolves to the second.
GreetPair(name) ==
  /\ name \in DOMAIN registry
  /\ Len(Candidates(name)) = 2
  /\ \A i \in 1..2 : /\ ~HasVarargs(Candidates(name)[i])
                     /\ ~HasVarkw(Candidates(name)[i])
  /\ NamedParams(Candidates(name)[1]) = <<"a">>
  /\ NamedParams(Candidates(name)[2]) = <<"a", "b">>

C5_KeywordRejection ==
  /\ last.op = "lookup" =>
       /\ \A i \in 1..Len(Candidates(last.name)) :
            LET c == Candidates(last.name)[i]
            IN  (~HasVarkw(c) /\
                 ~(last.kwargs \subseteq RemainingParams(c, last.nargs)))
                  => last.selected # i
       /\ \A j \in 1..Len(Candidates(last.name)) :
            (/\ Passes(Candidates(last.name)[j], last.nargs, last.kwargs)
             /\ \A i \in 1..(j - 1) :
                  ~Passes(Candidates(last.name)[i], last.nargs, last.kwargs))
              => last.selected = j
  /\ ((last.op = "lookup" \/ PlainCall) /\ GreetPair(last.name)
      /\ last.nargs = 1 /\ last.kwargs = {"b"}) => last.selected = 2

C5_Witness ==
  /\ last.op = "call" /\ last.via = "function_wrapper"
  /\ GreetPair(last.name)
  /\ last.nargs = 1 /\ last.kwargs = {"b"}
  /\ last.outcome = "return" /\ last.selected = 2

\* C6: in match, a candidate that is reached (no earlier candidate was
\* returned) is returned whenever it declares both varargs and varkw; a
\* varargs candidate is returned whenever its keyword test passes, whatever
\* the positional count; a varkw candidate is returned whenever its
\* positional test passes, whatever the keyword names.
C6_VariadicAcceptance ==
  last.op = "lookup" =>
    \A i \in 1..Len(Candidates(last.name)) :
      LET c == Candidates(last.name)[i]
          reached == last.selected = 0 \/ last.selected >= i
      IN  /\ (reached /\ HasVarargs(c) /\ HasVarkw(c)) => last.selected = i
          /\ (reached /\ HasVarargs(c) /\ KeywordOk(c, last.nargs, last.kwargs))
               => last.selected = i
          /\ (reached /\ HasVarkw(c) /\ PositionalOk(c, last.nargs))
               => last.selected = i

C6_Witness ==
  /\ last.op = "lookup"
  /\ last.selected # 0
  /\ last.nargs = MaxArgs /\ last.kwargs = KwNames
  /\ HasVarargs(Candidates(last.name)[last.selected])
  /\ Len(NamedParams(Candidates(last.name)[last.selected])) < last.nargs

\* C7: a call wrapper(receiver, *args, **kwargs) of a method wrapper selects
\* the first candidate whose signature accepts the receiver together with
\* args and kwargs, and executes that candidate once.
C7_MethodWrapperDispatches ==
  (/\ last.op = "call" /\ last.via = "method_wrapper"
   /\ last.nargs >= 1
   /\ Passing(last.name, last.nargs, last.kwargs) # {}) =>
    LET i == Lowest(Passing(last.name, last.nargs, last.kwargs))
    IN  /\ last.outcome = "return"
        /\ last.selected = i
        /\ Len(last.executed) = 1
        /\ last.executed[1].fn = Candidates(last.name)[i]

\* C8: overload returns a wrapper, never None, for every callable it
\* registers.
C8_OverloadReturnsWrapper ==
  last.op = "overload" => last.ret \in {"function_wrapper", "method_wrapper"}

\* C9: every step keeps each name's OverloadedFunction (the same object,
\* never replaced) and its candidate list before the step is a prefix of
\* the list after it; every candidate is listed under its own qualified
\* name.
C9_AppendOnly ==
  [][ /\ \A n \in DOMAIN registry :
           /\ n \in DOMAIN registry'
           /\ registry'[n].id = registry[n].id
           /\ IsPrefix(registry[n].registry, registry'[n].registry)
      /\ \A n \in DOMAIN registry' :
           \A i \in 1..Len(registry'[n].registry) :
             qualname(registry'[n].registry[i]) = n ]_vars

C9_Witness ==
  \E n \in DOMAIN registry :
    /\ Len(Candidates(n)) = 2
    /\ Candidates(n)[1] = Candidates(n)[2]
    /\ last.op \in {"register", "overload"}

\* C10: a registration under name N appends exactly one entry to N's
\* candidate list and leaves every other name's OverloadedFunction as it
\* was; lookup and call leave the whole registry unchanged; a call of a
\* wrapper for N executes candidates registered under N only.
C10_Frame ==
  [][ /\ last'.op \in {"register", "overload"} =>
           LET N == last'.name
               before == IF N \in DOMAIN registry THEN registry[N].registry
                         ELSE << >>
           IN  /\ DOMAIN registry' = DOMAIN registry \cup {N}
               /\ registry'[N].registry = Append(before, last'.fn)
               /\ \A n \in DOMAIN registry \ {N} : registry'[n] = registry[n]
      /\ last'.op \in {"lookup", "call"} => registry' = registry
      /\ last'.op = "call" =>
           \A e \in 1..Len(last'.executed) :
             /\ qualname(last'.executed[e].fn) = last'.name
             /\ last'.executed[e].fn \in Range(registry'[last'.name].registry) ]_vars

C10_Witness ==
  /\ last.op = "call" /\ last.via = "function_wrapper"
  /\ last.outcome = "return"
  /\ \E n \in DOMAIN registry : n # last.name /\ Len(Candidates(n)) >= 1
====
